---- MODULE Spec2Model ----
(***************************************************************************)
(* A model of fipy/matrices/petscMatrix.py: the _PETScMatrix wrapper, its  *)
(* CSR conversion (_ijv2csr) and the mesh specialisation _PETScMeshMatrix. *)
(*                                                                         *)
(* The PETSc Mat behind a wrapper is a record                              *)
(*    [size, own, vals, assembled]                                         *)
(* size = <<rows, cols>>, own = the ownership row range <<start, end>>,    *)
(* vals = the stored entries (a function on the cells, 0 for "---"),       *)
(* assembled = FALSE while values set by setValuesCSR are pending.         *)
(* Matrix entries are integers here; the code stores doubles.              *)
(***************************************************************************)
EXTENDS Integers, Sequences, FiniteSets, TLC

\* Bounds of the model.
MaxLen == 2     \* index/value arrays passed to put, addAt, take: length 0..MaxLen
MaxEntry == 2   \* a write is made only while every stored entry stays in 0..MaxEntry
MaxCells == 2   \* mesh.numberOfCells ranges over 1..MaxCells
MaxComp == 2    \* numberOfEquations, numberOfVariables range over 1..MaxComp

\* The shapes and values the calls are made with (fixed domains of the
\* model, like the bounds above)
Dims == {1, 2}  \* rows and cols of a plain matrix
Vals == {1, 2}  \* values written, and the entries of dense operands

VARIABLES objs, call

vars == <<objs, call>>

----------------------------------------------------------------------------
\* Generic helpers

Min(a, b) == IF a < b THEN a ELSE b

\* All sequences over S of length lo..hi
SeqsOf(S, lo, hi) == UNION {[1..n -> S] : n \in lo..hi}

RECURSIVE SumTo(_, _)
\* f[0] + ... + f[n-1]
SumTo(f, n) == IF n = 0 THEN 0 ELSE SumTo(f, n - 1) + f[n - 1]

\* The largest value of numpy's int32
Int32Max == 2147483647

\* numpy's astype('int32') of an index: values past the signed 32 bit range
\* wrap around, the others are kept
astype_int32(x) ==
    IF x > Int32Max THEN ((x - Int32Max) - 1) + ((-Int32Max) - 1)
    ELSE IF x < (-Int32Max) - 1 THEN ((x + Int32Max) + 1) + Int32Max + 1
    ELSE x

\* The cells of a matrix of the given size, rows and columns counted from 0
Cells(size) == (0..(size[1] - 1)) \X (0..(size[2] - 1))

----------------------------------------------------------------------------
\* numpy pieces used by _ijv2csr

\* lexLess with the keys the other way round: the columns as the primary key
lexLessColumnFirst(i, j, a, b) == i[a] < i[b] \/ (i[a] = i[b] /\ j[a] < j[b])

\* The order lexsort([i, j]) sorts by: the last key (j, the rows) is the
\* primary key, the first (i, the columns) breaks ties.
lexLess(i, j, a, b) == j[a] < j[b] \/ (j[a] = j[b] /\ i[a] < i[b])

\* lexInsert as an unstable sort would do it: position k goes in front of the
\* elements equal to it
lexInsertBeforeEqual(s, k, i, j) ==
    LET p == Cardinality({x \in 1..Len(s) : lexLess(i, j, s[x], k)})
    IN SubSeq(s, 1, p) \o <<k>> \o SubSeq(s, p + 1, Len(s))

\* Insert position k into the sorted index list s, behind every element that
\* is not greater than it (lexsort is a stable sort).
lexInsert(s, k, i, j) ==
    LET p == Cardinality({x \in 1..Len(s) : ~lexLess(i, j, k, s[x])})
    IN SubSeq(s, 1, p) \o <<k>> \o SubSeq(s, p + 1, Len(s))

RECURSIVE lexsortUpTo(_, _, _)
lexsortUpTo(i, j, n) ==
    IF n = 0 THEN <<>> ELSE lexInsert(lexsortUpTo(i, j, n - 1), n, i, j)

\* numerix.lexsort([i, j]): the permutation (of 1..n) that sorts the triplets
lexsort(i, j) == lexsortUpTo(i, j, Len(i))

\* a[ix]: fancy indexing with a permutation
fancy(a, ix) == [k \in 1..Len(ix) |-> a[ix[k]]]

\* numerix.searchsorted(a, v) for one v (side='left', a sorted): the number
\* of elements of a below v
searchsorted1(a, v) == Cardinality({x \in 1..Len(a) : a[x] < v})

\* numerix.searchsorted(a, numerix.arange(lo, hi))
searchsorted(a, lo, hi) ==
    [k \in 1..(IF hi > lo THEN hi - lo ELSE 0) |-> searchsorted1(a, lo + k - 1)]

\* _PETScMatrix._ijv2csr(i, j, v), with the matrix's ownership range own:
\* i are column indices, j row indices, v values.
ijv2csr(own, i, j, v) ==
    LET start_row == own[1]
        end_row == own[2]
        ix == lexsort(i, j)
        cols == fancy(i, ix)
        row_ptr == searchsorted(fancy(j, ix), start_row, end_row + 1)
        vals == fancy(v, ix)
    IN [row_ptr |-> [k \in DOMAIN row_ptr |-> astype_int32(row_ptr[k])],
        cols |-> [k \in DOMAIN cols |-> astype_int32(cols[k])],
        vals |-> vals]

----------------------------------------------------------------------------
\* The PETSc side (petsc4py), as the wrapper uses it

\* PETSc.Mat().create(); setSizes([rows, cols]); setType('aij'): an empty,
\* unassembled matrix owned by one process (ownership range 0..rows)
NewMat(rows, cols) ==
    [size |-> <<rows, cols>>,
     own |-> <<0, rows>>,
     vals |-> [c \in Cells(<<rows, cols>>) |-> 0],
     assembled |-> FALSE]

\* matrix.assemblyBegin(); matrix.assemblyEnd()
assemble(m) == [m EXCEPT !.assembled = TRUE]

RECURSIVE matSetValuesUpTo(_, _, _, _, _, _)
\* The MatSetValues calls setValuesCSR makes for the first p entries, in CSR
\* order: entry p lies in the local row whose row_ptr range holds it. A
\* negative column is ignored by MatSetValues; a column past the last is an
\* error. addv adds to the stored value, otherwise the value is replaced.
matSetValuesUpTo(m, I, J, V, addv, p) ==
    IF p = 0 THEN [err |-> "", vals |-> m.vals]
    ELSE LET prev == matSetValuesUpTo(m, I, J, V, addv, p - 1)
             row == m.own[1] + Cardinality({k \in 2..Len(I) : I[k] <= p - 1})
             col == J[p]
         IN IF prev.err # "" THEN prev
            ELSE IF col < 0 THEN prev
            ELSE IF col >= m.size[2] THEN [prev EXCEPT !.err = "PETSc.Error"]
            ELSE [prev EXCEPT !.vals[<<row, col>>] =
                                  IF addv THEN @ + V[p] ELSE V[p]]

\* matrix.setValuesCSR(I, J, V, addv): petsc4py checks the CSR arrays
\* against the ownership range first, then sets the values row by row.
\* Values set with and without addv may follow each other with no assembly
\* in between, as in the doctest of addAt (put, then addAt, then print).
setValuesCSR(m, I, J, V, addv) ==
    IF \/ Len(I) - 1 # m.own[2] - m.own[1]
       \/ I[1] # 0
       \/ I[Len(I)] # Len(J)
       \/ Len(J) # Len(V)
    THEN [err |-> "ValueError", mat |-> m]
    ELSE LET r == matSetValuesUpTo(m, I, J, V, addv, Len(J))
         IN [err |-> r.err,
             mat |-> [m EXCEPT !.vals = r.vals,
                               !.assembled = IF Len(J) = 0 THEN @ ELSE FALSE]]

\* matrix[i, j]: a read of one entry; PETSc refuses it on an unassembled
\* matrix and outside the matrix
matGet(m, i, j) ==
    IF ~m.assembled THEN [err |-> "PETSc.Error", val |-> 0]
    ELSE IF <<i, j>> \notin Cells(m.size) THEN [err |-> "PETSc.Error", val |-> 0]
    ELSE [err |-> "", val |-> m.vals[<<i, j>>]]

\* a.matMult(b)
matMult(a, b) ==
    IF ~a.assembled \/ ~b.assembled \/ a.size[2] # b.size[1]
    THEN [err |-> "PETSc.Error", mat |-> a]
    ELSE [err |-> "",
          mat |-> [size |-> <<a.size[1], b.size[2]>>,
                   own |-> <<0, a.size[1]>>,
                   vals |-> [c \in Cells(<<a.size[1], b.size[2]>>) |->
                               SumTo([k \in 0..(a.size[2] - 1) |->
                                        a.vals[<<c[1], k>>] * b.vals[<<k, c[2]>>]],
                                     a.size[2])],
                   assembled |-> TRUE]]

\* a + b (sign = 1) and a - b (sign = -1) of two PETSc matrices
matAxpy(a, b, sign) ==
    IF ~a.assembled \/ ~b.assembled \/ a.size # b.size
    THEN [err |-> "PETSc.Error", mat |-> a]
    ELSE [err |-> "",
          mat |-> [a EXCEPT !.vals = [c \in Cells(a.size) |->
                                        a.vals[c] + sign * b.vals[c]]]]

\* matrix * scalar
matScale(a, x) == [a EXCEPT !.vals = [c \in Cells(a.size) |-> a.vals[c] * x]]

\* matrix.mult(x, y): y = A x; the lengths of x and y must be cols and rows
mult(m, x, y) ==
    IF ~m.assembled \/ Len(x) # m.size[2] \/ Len(y) # m.size[1]
    THEN [err |-> "PETSc.Error", y |-> y]
    ELSE [err |-> "",
          y |-> [r \in 1..m.size[1] |->
                   SumTo([k \in 0..(m.size[2] - 1) |->
                            m.vals[<<r - 1, k>>] * x[k + 1]], m.size[2])]]

\* matrix.multTranspose(x, y): y = A^T x; the lengths of x and y must be
\* rows and cols
multTranspose(m, x, y) ==
    IF ~m.assembled \/ Len(x) # m.size[1] \/ Len(y) # m.size[2]
    THEN [err |-> "PETSc.Error", y |-> y]
    ELSE [err |-> "",
          y |-> [c \in 1..m.size[2] |->
                   SumTo([k \in 0..(m.size[1] - 1) |->
                            m.vals[<<k, c - 1>>] * x[k + 1]], m.size[1])]]

\* PETSc.Vec().createMPI(N): a vector of N zeros
createMPI(N) == [k \in 1..N |-> 0]

RECURSIVE stripOnes(_)
stripOnes(shape) ==
    IF Len(shape) > 0 /\ shape[1] = 1 THEN stripOnes(Tail(shape)) ELSE shape

\* x[:] = other for a vector x of length N: numpy broadcasts other to (N,)
\* or refuses
setSlice(N, arr) ==
    LET sh == stripOnes(arr.shape)
    IN IF sh = <<N>> /\ Len(arr.data) = N THEN [err |-> "", x |-> arr.data]
       ELSE IF sh = <<>> /\ Len(arr.data) = 1
            THEN [err |-> "", x |-> [k \in 1..N |-> arr.data[1]]]
       ELSE [err |-> "ValueError", x |-> createMPI(N)]

----------------------------------------------------------------------------
\* The Python objects: wrappers, arrays, operands, return values

\* A numpy array: its shape and its data in row-major order. A scalar has
\* shape <<>>.
Scalar(x) == [shape |-> <<>>, data |-> <<x>>]
Vector(d) == [shape |-> <<Len(d)>>, data |-> d]
NoArr == [shape |-> <<0>>, data |-> <<>>]

\* A mesh, as far as the matrices use it: its identity and numberOfCells
Mesh(id, numberOfCells) == [id |-> id, numberOfCells |-> numberOfCells]
NoMesh == Mesh(0, 0)

\* _PETScMatrix.__init__(matrix): a wrapper with no mesh
PETScMatrix(matrix) ==
    [cls |-> "_PETScMatrix", hasMatrix |-> TRUE, matrix |-> matrix,
     mesh |-> NoMesh, numberOfVariables |-> 0, numberOfEquations |-> 0,
     cache |-> "unset"]

\* _PETScMatrixFromShape.__init__(rows, cols): wraps a new PETSc matrix
PETScMatrixFromShape(rows, cols) ==
    [PETScMatrix(NewMat(rows, cols)) EXCEPT !.cls = "_PETScMatrixFromShape"]

NoObj == [PETScMatrix(NewMat(0, 0)) EXCEPT !.cls = "None", !.hasMatrix = FALSE]

\* What a call returned: None, self (the receiver itself), a new wrapper, an
\* array (or scalar), or the exception it raised
NoCSR == [row_ptr |-> <<>>, cols |-> <<>>, vals |-> <<>>]
RetNone == [kind |-> "None", arr |-> NoArr, obj |-> NoObj, err |-> "", csr |-> NoCSR]
RetCSR(c) == [RetNone EXCEPT !.kind = "csr", !.csr = c]
RetSelf == [RetNone EXCEPT !.kind = "self"]
RetObj(o) == [RetNone EXCEPT !.kind = "object", !.obj = o]
RetArr(a) == [RetNone EXCEPT !.kind = "array", !.arr = a]
Raise(e) == [RetNone EXCEPT !.kind = "raise", !.err = e]

\* The operand of a binary operator: another wrapper (by name), a Python
\* number, or a numpy array
OpMatrix(b) == [tag |-> "matrix", ref |-> b, arr |-> NoArr]
OpNumber(x) == [tag |-> "number", ref |-> "", arr |-> Scalar(x)]
OpArray(a) == [tag |-> "ndarray", ref |-> "", arr |-> a]
NoOperand == [tag |-> "none", ref |-> "", arr |-> NoArr]

\* _PETScMatrix._shape
shape(o) == o.matrix.size

\* self.matrix.assemblyBegin(); self.matrix.assemblyEnd() on wrapper a
assembled(O, a) == [O EXCEPT ![a].matrix = assemble(@)]

\* _PETScMatrix.put(vector, id1, id2)
put(O, a, vector, id1, id2) ==
    IF ~O[a].hasMatrix THEN [objs |-> O, ret |-> Raise("AttributeError")]
    ELSE LET csr == ijv2csr(O[a].matrix.own, id2, id1, vector)
             r == setValuesCSR(O[a].matrix, csr.row_ptr, csr.cols, csr.vals, FALSE)
         IN [objs |-> [O EXCEPT ![a].matrix = r.mat],
             ret |-> IF r.err = "" THEN RetNone ELSE Raise(r.err)]

\* addAt with addv=True left out of the setValuesCSR call
addAtNoAddv(O, a, vector, id1, id2) == put(O, a, vector, id1, id2)

\* _PETScMatrix.addAt(vector, id1, id2)
addAt(O, a, vector, id1, id2) ==
    IF ~O[a].hasMatrix THEN [objs |-> O, ret |-> Raise("AttributeError")]
    ELSE LET csr == ijv2csr(O[a].matrix.own, id2, id1, vector)
             r == setValuesCSR(O[a].matrix, csr.row_ptr, csr.cols, csr.vals, TRUE)
         IN [objs |-> [O EXCEPT ![a].matrix = r.mat],
             ret |-> IF r.err = "" THEN RetNone ELSE Raise(r.err)]

\* [self.matrix[i, j] for i, j in zip(id1, id2)]: the values read, or the
\* first error
takeValues(m, id1, id2) ==
    LET n == Min(Len(id1), Len(id2))
        got == [k \in 1..n |-> matGet(m, id1[k], id2[k])]
    IN IF \E k \in 1..n : got[k].err # ""
       THEN [err |-> "PETSc.Error", vector |-> <<>>]
       ELSE [err |-> "", vector |-> [k \in 1..n |-> got[k].val]]

\* _PETScMatrix.take(id1, id2)
take(O, a, id1, id2) ==
    IF ~O[a].hasMatrix THEN [objs |-> O, ret |-> Raise("AttributeError")]
    ELSE LET O1 == assembled(O, a)
             r == takeValues(O1[a].matrix, id1, id2)
         IN [objs |-> O1,
             ret |-> IF r.err = "" THEN RetArr(Vector(r.vector)) ELSE Raise(r.err)]

\* numerix.arange(n)
arange(n) == [k \in 1..n |-> k - 1]

\* _PETScMatrix.takeDiagonal()
takeDiagonal(O, a) ==
    IF ~O[a].hasMatrix THEN [objs |-> O, ret |-> Raise("AttributeError")]
    ELSE take(O, a, arange(shape(O[a])[1]), arange(shape(O[a])[1]))

\* _PETScMatrix.numpyArray: every entry, row by row, reshaped to the shape
numpyArray(O, a) ==
    IF ~O[a].hasMatrix THEN [objs |-> O, ret |-> Raise("AttributeError")]
    ELSE LET sh == shape(O[a])
             n == sh[1] * sh[2]
             r == take(O, a, [k \in 1..n |-> (k - 1) \div sh[2]],
                             [k \in 1..n |-> (k - 1) % sh[2]])
         IN IF r.ret.kind = "array"
            THEN [r EXCEPT !.ret.arr.shape = sh]
            ELSE r

\* _PETScMatrix.__getitem__(index): index is <<i, j>> (one entry, a scalar
\* comes back) or <<>> (the slice [:, :], a wrapper of the values comes back)
getitem(O, a, index) ==
    IF ~O[a].hasMatrix THEN [objs |-> O, ret |-> Raise("AttributeError")]
    ELSE LET O1 == assembled(O, a)
             m == O1[a].matrix
         IN IF index = <<>>
            THEN [objs |-> O1, ret |-> RetObj(PETScMatrix(m))]
            ELSE LET r == matGet(m, index[1], index[2])
                 IN [objs |-> O1,
                     ret |-> IF r.err = "" THEN RetArr(Scalar(r.val))
                             ELSE Raise(r.err)]

----------------------------------------------------------------------------
\* Algebra

\* The zero fast path left out: no operand counts as zero
isZeroNever(operand) == FALSE

\* other == 0, for the operands the model passes to + and -
isZero(operand) == operand.tag = "number" /\ operand.arr.data[1] = 0

\* The body shared by __add__ (sign 1) and __sub__ (sign -1): zero returns
\* self; otherwise self is assembled, then other.matrix is looked up and
\* assembled, and a new wrapper of the sum or difference is returned
addsub(O, a, operand, sign) ==
    IF isZero(operand) THEN [objs |-> O, ret |-> RetSelf]
    ELSE IF ~O[a].hasMatrix THEN [objs |-> O, ret |-> Raise("AttributeError")]
    ELSE LET O1 == assembled(O, a)
         IN IF operand.tag # "matrix" \/ ~O1[operand.ref].hasMatrix
            THEN [objs |-> O1, ret |-> Raise("AttributeError")]
            ELSE LET O2 == assembled(O1, operand.ref)
                     r == matAxpy(O2[a].matrix, O2[operand.ref].matrix, sign)
                 IN [objs |-> O2,
                     ret |-> IF r.err = "" THEN RetObj(PETScMatrix(r.mat))
                             ELSE Raise(r.err)]

\* The body shared by __iadd__ (sign 1) and __isub__ (sign -1)
iaddsub(O, a, operand, sign) ==
    IF isZero(operand) THEN [objs |-> O, ret |-> RetSelf]
    ELSE IF ~O[a].hasMatrix THEN [objs |-> O, ret |-> Raise("AttributeError")]
    ELSE LET O1 == assembled(O, a)
         IN IF operand.tag # "matrix" \/ ~O1[operand.ref].hasMatrix
            THEN [objs |-> O1, ret |-> Raise("AttributeError")]
            ELSE LET O2 == assembled(O1, operand.ref)
                     r == matAxpy(O2[a].matrix, O2[operand.ref].matrix, sign)
                 IN IF r.err = ""
                    THEN [objs |-> [O2 EXCEPT ![a].matrix = r.mat], ret |-> RetSelf]
                    ELSE [objs |-> O2, ret |-> Raise(r.err)]

\* _PETScMatrix.__add__ and __radd__ (the same function)
add(O, a, operand) == addsub(O, a, operand, 1)

\* _PETScMatrix.__sub__
sub(O, a, operand) == addsub(O, a, operand, -1)

\* _PETScMatrix.__iadd__
iadd(O, a, operand) == iaddsub(O, a, operand, 1)

\* _PETScMatrix.__isub__
isub(O, a, operand) == iaddsub(O, a, operand, -1)

\* The length N that __mul__ and __rmul__ give the vectors x and y
vecLength(o) == shape(o)[2]

\* self * vector in __mul__: x and y = x.duplicate() of length N, x[:] = other,
\* matrix.mult(x, y)
mulVector(O, a, arr) ==
    LET N == vecLength(O[a])
        x == setSlice(N, arr)
        y == createMPI(N)
        r == mult(O[a].matrix, x.x, y)
    IN IF x.err # "" THEN [objs |-> O, ret |-> Raise(x.err)]
       ELSE IF r.err # "" THEN [objs |-> O, ret |-> Raise(r.err)]
       ELSE [objs |-> O, ret |-> RetArr(Vector(r.y))]

\* mulDense without the final else: an operand of any other shape falls
\* through and None is returned
mulDenseNoRaise(O, a, arr) ==
    IF arr.shape = <<>>
    THEN [objs |-> O, ret |-> RetObj(PETScMatrix(matScale(O[a].matrix, arr.data[1])))]
    ELSE IF arr.shape = <<shape(O[a])[2]>>
    THEN mulVector(O, a, arr)
    ELSE [objs |-> O, ret |-> RetNone]

\* The dense branch of __mul__: dispatch on numerix.shape(other)
mulDense(O, a, arr) ==
    IF arr.shape = <<>>
    THEN [objs |-> O, ret |-> RetObj(PETScMatrix(matScale(O[a].matrix, arr.data[1])))]
    ELSE IF arr.shape = <<shape(O[a])[2]>>
    THEN mulVector(O, a, arr)
    ELSE [objs |-> O, ret |-> Raise("TypeError")]

\* _PETScMatrix.__mul__(other)
PETScMatrix_mul(O, a, operand) ==
    IF ~O[a].hasMatrix THEN [objs |-> O, ret |-> Raise("AttributeError")]
    ELSE LET O1 == assembled(O, a)
         IN IF operand.tag = "matrix"
            THEN IF ~O1[operand.ref].hasMatrix
                 THEN [objs |-> O1, ret |-> Raise("AttributeError")]
                 ELSE LET O2 == assembled(O1, operand.ref)
                          r == matMult(O2[a].matrix, O2[operand.ref].matrix)
                      IN [objs |-> O2,
                          ret |-> IF r.err = "" THEN RetObj(PETScMatrix(r.mat))
                                  ELSE Raise(r.err)]
            ELSE mulDense(O1, a, operand.arr)

\* _PETScMeshMatrix.__init__(mesh, matrix=None, numberOfVariables,
\* numberOfEquations): a new matrix of numberOfEquations * numberOfCells rows
\* and numberOfVariables * numberOfCells columns
PETScMeshMatrix(mesh, numberOfVariables, numberOfEquations) ==
    [cls |-> "_PETScMeshMatrix", hasMatrix |-> TRUE,
     matrix |-> NewMat(numberOfEquations * mesh.numberOfCells,
                       numberOfVariables * mesh.numberOfCells),
     mesh |-> mesh, numberOfVariables |-> numberOfVariables,
     numberOfEquations |-> numberOfEquations, cache |-> "unset"]

\* _PETScMeshMatrix.__init__(mesh, matrix=matrix, numberOfVariables,
\* numberOfEquations): the given matrix is wrapped as it is
PETScMeshMatrixOf(mesh, matrix, numberOfVariables, numberOfEquations) ==
    [cls |-> "_PETScMeshMatrix", hasMatrix |-> TRUE, matrix |-> matrix,
     mesh |-> mesh, numberOfVariables |-> numberOfVariables,
     numberOfEquations |-> numberOfEquations, cache |-> "unset"]

\* The wrapper _PETScMeshMatrix.__mul__ returns for a product matrix: the
\* constructor is called with mesh and matrix only
meshProduct(o, matrix) == PETScMeshMatrixOf(o.mesh, matrix, 1, 1)

\* _PETScMeshMatrix.__mul__(other)
PETScMeshMatrix_mul(O, a, operand) ==
    IF operand.tag = "matrix" /\ O[operand.ref].cls = "_PETScMeshMatrix"
    THEN IF ~O[a].hasMatrix THEN [objs |-> O, ret |-> Raise("AttributeError")]
         ELSE LET O1 == assembled(O, a)
              IN IF ~O1[operand.ref].hasMatrix
                 THEN [objs |-> O1, ret |-> Raise("AttributeError")]
                 ELSE LET O2 == assembled(O1, operand.ref)
                          r == matMult(O2[a].matrix, O2[operand.ref].matrix)
                      IN [objs |-> O2,
                          ret |-> IF r.err = ""
                                  THEN RetObj(meshProduct(O2[a], r.mat))
                                  ELSE Raise(r.err)]
    ELSE PETScMatrix_mul(O, a, operand)

\* self * other, dispatched on the class of self
mul(O, a, operand) ==
    IF O[a].cls = "_PETScMeshMatrix" THEN PETScMeshMatrix_mul(O, a, operand)
    ELSE PETScMatrix_mul(O, a, operand)

\* The numpy-array branch of __rmul__: x and y of length N, x[:] = other,
\* matrix.multTranspose(x, y)
rmulVector(O, a, arr) ==
    IF ~O[a].hasMatrix THEN [objs |-> O, ret |-> Raise("AttributeError")]
    ELSE LET N == vecLength(O[a])
             x == setSlice(N, arr)
             y == createMPI(N)
             r == multTranspose(O[a].matrix, x.x, y)
         IN IF x.err # "" THEN [objs |-> O, ret |-> Raise(x.err)]
            ELSE IF r.err # "" THEN [objs |-> O, ret |-> Raise(r.err)]
            ELSE [objs |-> O, ret |-> RetArr(Vector(r.y))]

\* _PETScMatrix.__rmul__(other)
rmul(O, a, operand) ==
    IF operand.tag = "ndarray" THEN rmulVector(O, a, operand.arr)
    ELSE mul(O, a, operand)

\* getattr(self, 'cache', True): the matrix is kept unless cache is False
cacheSetByDefault(o) == o.cache # "False"

\* getattr(self, 'cache', False), as a truth value
cacheSet(o) == o.cache = "True"

\* _PETScMeshMatrix.flush()
flush(O, a) ==
    IF cacheSet(O[a]) THEN [objs |-> O, ret |-> RetNone]
    ELSE IF ~O[a].hasMatrix THEN [objs |-> O, ret |-> Raise("AttributeError")]
    ELSE [objs |-> [O EXCEPT ![a].hasMatrix = FALSE, ![a].matrix = NewMat(0, 0)],
          ret |-> RetNone]

\* _PETScMatrix.putDiagonal(vector): vector is a Python number or a list
putDiagonal(O, a, operand) ==
    IF ~O[a].hasMatrix THEN [objs |-> O, ret |-> Raise("AttributeError")]
    ELSE IF operand.tag = "number"
    THEN LET ids == arange(shape(O[a])[1])
             tmp == [k \in 1..shape(O[a])[1] |-> operand.arr.data[1]]
         IN put(O, a, tmp, ids, ids)
    ELSE LET ids == arange(Len(operand.arr.data))
         IN put(O, a, operand.arr.data, ids, ids)

\* _PETScMatrix.addAtDiagonal(vector)
addAtDiagonal(O, a, operand) ==
    IF ~O[a].hasMatrix THEN [objs |-> O, ret |-> Raise("AttributeError")]
    ELSE IF operand.tag = "number"
    THEN LET ids == arange(shape(O[a])[1])
             tmp == [k \in 1..shape(O[a])[1] |-> operand.arr.data[1]]
         IN addAt(O, a, tmp, ids, ids)
    ELSE LET ids == arange(Len(operand.arr.data))
         IN addAt(O, a, operand.arr.data, ids, ids)

\* _PETScIdentityMatrix.__init__(size): a new size x size matrix with ones
\* put on the diagonal
PETScIdentityMatrix(size) ==
    LET new == [PETScMatrixFromShape(size, size) EXCEPT !.cls = "_PETScIdentityMatrix"]
        ids == arange(size)
    IN put([n \in {"self"} |-> new], "self", [k \in 1..size |-> 1], ids, ids).objs["self"]

----------------------------------------------------------------------------
\* The state machine: two wrappers A and B, and the call in progress. A
\* call is made when none is in progress (call = NoCall); call then holds
\* its arguments and what it returned until the caller takes the result.

Names == {"A", "B"}

\* The other wrapper, the matrix operand of a binary operator on a
peer(a) == IF a = "A" THEN "B" ELSE "A"

Called(op, a, vector, id1, id2, operand, ret) ==
    [op |-> op, recv |-> a, vector |-> vector, id1 |-> id1, id2 |-> id2,
     operand |-> operand, ret |-> ret]

NoCall == Called("none", "A", <<>>, <<>>, <<>>, NoOperand, RetNone)

\* Every stored entry is in 0..MaxEntry
InBounds(O) ==
    \A n \in Names : \A c \in Cells(O[n].matrix.size) :
      O[n].matrix.vals[c] \in 0..MaxEntry

\* One call: the objects change as the method changed them, call records it
Do(op, a, vector, id1, id2, operand, res) ==
    /\ call = NoCall
    /\ InBounds(res.objs)
    /\ objs' = res.objs
    /\ call' = Called(op, a, vector, id1, id2, operand, res.ret)

\* The caller takes the result
Return ==
    /\ call # NoCall
    /\ call' = NoCall
    /\ UNCHANGED objs

\* The indices a caller passes for wrapper o: rows and columns of the matrix
RowIds(o) == 0..(o.matrix.size[1] - 1)
ColIds(o) == 0..(o.matrix.size[2] - 1)

\* Dense operands of * : Python numbers, vectors of length 1..3 and a
\* two-dimensional array
DenseOperands ==
    {OpNumber(x) : x \in Vals}
    \cup {OpArray(Vector(d)) : d \in SeqsOf(Vals, 1, 3)}
    \cup {OpArray([shape |-> <<1, 2>>, data |-> <<1, 2>>])}

\* Operands of + and - : zero, a nonzero number, the other matrix
AddOperands(a) == {OpNumber(0), OpNumber(1), OpMatrix(peer(a))}

Put(R, maxlen) ==
    \E a \in R : \E n \in 0..maxlen :
      \E vector \in [1..n -> Vals], id1 \in [1..n -> RowIds(objs[a])],
         id2 \in [1..n -> ColIds(objs[a])] :
        Do("put", a, vector, id1, id2, NoOperand, put(objs, a, vector, id1, id2))

AddAt(R, maxlen) ==
    \E a \in R : \E n \in 0..maxlen :
      \E vector \in [1..n -> Vals], id1 \in [1..n -> RowIds(objs[a])],
         id2 \in [1..n -> ColIds(objs[a])] :
        Do("addAt", a, vector, id1, id2, NoOperand, addAt(objs, a, vector, id1, id2))

\* The indices of a caller that does not keep to the matrix: one before the
\* first and one past the last row and column as well
AnyRowIds(o) == (-1)..o.matrix.size[1]
AnyColIds(o) == (-1)..o.matrix.size[2]

\* The vector argument of the calls below: n ones
ones(n) == [k \in 1..n |-> 1]

\* put of ones at any indices
PutAny(R, maxlen) ==
    \E a \in R : \E n \in 1..maxlen :
      \E id1 \in [1..n -> AnyRowIds(objs[a])], id2 \in [1..n -> AnyColIds(objs[a])] :
        Do("put", a, ones(n), id1, id2, NoOperand, put(objs, a, ones(n), id1, id2))

\* addAt of ones at any indices
AddAtAny(R, maxlen) ==
    \E a \in R : \E n \in 1..maxlen :
      \E id1 \in [1..n -> AnyRowIds(objs[a])], id2 \in [1..n -> AnyColIds(objs[a])] :
        Do("addAt", a, ones(n), id1, id2, NoOperand, addAt(objs, a, ones(n), id1, id2))

Take(R, maxlen) ==
    \E a \in R : \E n \in 0..maxlen :
      \E id1 \in [1..n -> RowIds(objs[a])], id2 \in [1..n -> ColIds(objs[a])] :
        Do("take", a, <<>>, id1, id2, NoOperand, take(objs, a, id1, id2))

TakeDiagonal(R) ==
    \E a \in R :
      Do("takeDiagonal", a, <<>>, <<>>, <<>>, NoOperand, takeDiagonal(objs, a))

NumpyArray(R) ==
    \E a \in R :
      Do("numpyArray", a, <<>>, <<>>, <<>>, NoOperand, numpyArray(objs, a))

GetItem(R) ==
    \E a \in R :
      \E index \in {<<>>} \cup (RowIds(objs[a]) \X ColIds(objs[a])) :
        Do("getitem", a, <<>>, index, <<>>, NoOperand, getitem(objs, a, index))

PutDiagonal(R) ==
    \E a \in R : \E x \in Vals :
      Do("putDiagonal", a, <<>>, <<>>, <<>>, OpNumber(x),
         putDiagonal(objs, a, OpNumber(x)))

\* putDiagonal with a list: of any length 0..MaxLen
PutDiagonalVector(R) ==
    \E a \in R : \E d \in SeqsOf(Vals, 0, MaxLen) :
      Do("putDiagonal", a, <<>>, <<>>, <<>>, OpArray(Vector(d)),
         putDiagonal(objs, a, OpArray(Vector(d))))

AddAtDiagonal(R) ==
    \E a \in R : \E operand \in {OpNumber(1), OpArray(Vector(<<1>>))} :
      Do("addAtDiagonal", a, <<>>, <<>>, <<>>, operand,
         addAtDiagonal(objs, a, operand))

Mul(R) ==
    \E a \in R : \E operand \in DenseOperands \cup {OpMatrix(peer(a))} :
      Do("mul", a, <<>>, <<>>, <<>>, operand, mul(objs, a, operand))

RMul(R) ==
    \E a \in R : \E operand \in DenseOperands :
      Do("rmul", a, <<>>, <<>>, <<>>, operand, rmul(objs, a, operand))

Add(R) ==
    \E a \in R : \E operand \in AddOperands(a) :
      Do("add", a, <<>>, <<>>, <<>>, operand, add(objs, a, operand))

RAdd(R) ==
    \E a \in R : \E operand \in {OpNumber(0), OpNumber(1)} :
      Do("radd", a, <<>>, <<>>, <<>>, operand, add(objs, a, operand))

IAdd(R) ==
    \E a \in R : \E operand \in AddOperands(a) :
      Do("iadd", a, <<>>, <<>>, <<>>, operand, iadd(objs, a, operand))

Sub(R) ==
    \E a \in R : \E operand \in AddOperands(a) :
      Do("sub", a, <<>>, <<>>, <<>>, operand, sub(objs, a, operand))

ISub(R) ==
    \E a \in R : \E operand \in AddOperands(a) :
      Do("isub", a, <<>>, <<>>, <<>>, operand, isub(objs, a, operand))

\* matrix.cache = value, assigned by the code that owns the matrix
SetCache(R) ==
    \E a \in R : \E value \in {"True", "False"} :
      /\ call = NoCall
      /\ objs' = [objs EXCEPT ![a].cache = value]
      /\ call' = Called("setCache", a, <<>>, <<>>, <<>>, NoOperand, RetNone)

Flush(R) ==
    \E a \in R :
      Do("flush", a, <<>>, <<>>, <<>>, NoOperand, flush(objs, a))

----------------------------------------------------------------------------
\* Spec: reads and writes of one matrix A of any shape (B is not used)

Init ==
    /\ \E r \in Dims, c \in Dims :
         objs = [n \in Names |-> IF n = "A" THEN PETScMatrixFromShape(r, c)
                                 ELSE PETScMatrixFromShape(1, 1)]
    /\ call = NoCall

Next ==
    \/ Put({"A"}, MaxLen)
    \/ AddAt({"A"}, MaxLen)
    \/ Take({"A"}, MaxLen)
    \/ TakeDiagonal({"A"})
    \/ NumpyArray({"A"})
    \/ GetItem({"A"})
    \/ Return

Spec == Init /\ [][Next]_vars

----------------------------------------------------------------------------
\* SpecAlgebra: the operators of a matrix A of any shape, with an identity
\* matrix B of any size as the matrix operand. A is filled one entry at a
\* time.

InitAlgebra ==
    /\ \E r \in Dims, c \in Dims, size \in Dims :
         objs = [n \in Names |-> IF n = "A" THEN PETScMatrixFromShape(r, c)
                                 ELSE PETScIdentityMatrix(size)]
    /\ call = NoCall

NextAlgebra ==
    \/ Put({"A"}, 1)
    \/ Take({"A"}, 1)
    \/ TakeDiagonal({"A"})
    \/ NumpyArray({"A"})
    \/ GetItem({"A"})
    \/ Mul({"A"})
    \/ RMul({"A"})
    \/ Add({"A"})
    \/ RAdd({"A"})
    \/ IAdd({"A"})
    \/ Sub({"A"})
    \/ ISub({"A"})
    \/ Return

SpecAlgebra == InitAlgebra /\ [][NextAlgebra]_vars

----------------------------------------------------------------------------
\* SpecMesh: two mesh matrices on one mesh, of any numbers of equations and
\* variables

InitMesh ==
    /\ \E cells \in 1..MaxCells, nv1 \in 1..MaxComp, ne1 \in 1..MaxComp,
          nv2 \in 1..MaxComp, ne2 \in 1..MaxComp :
         objs = [n \in Names |->
                   IF n = "A" THEN PETScMeshMatrix(Mesh(1, cells), nv1, ne1)
                   ELSE PETScMeshMatrix(Mesh(1, cells), nv2, ne2)]
    /\ call = NoCall

NextMesh ==
    \/ PutDiagonal({"A"})
    \/ NumpyArray({"A"})
    \/ Mul({"A"})
    \/ SetCache({"A"})
    \/ Flush({"A"})
    \/ Return

SpecMesh == InitMesh /\ [][NextMesh]_vars

----------------------------------------------------------------------------
\* SpecCSR: _ijv2csr on a matrix whose ownership range is any row block

\* A matrix of which this process owns the rows start..end-1
OwnedMat(rows, cols, start, end) ==
    [NewMat(rows, cols) EXCEPT !.own = <<start, end>>]

InitCSR ==
    /\ \E rows \in Dims, cols \in Dims :
         \E start \in 0..rows : \E end \in start..rows :
           objs = [n \in Names |-> PETScMatrix(OwnedMat(rows, cols, start, end))]
    /\ call = NoCall

\* self._ijv2csr(i, j, v): i = id2 are the columns, j = id1 the rows
Ijv2csr ==
    \E n \in 0..MaxLen :
      \E v \in [1..n -> Vals], j \in [1..n -> RowIds(objs["A"])],
         i \in [1..n -> ColIds(objs["A"])] :
        /\ call = NoCall
        /\ call' = Called("_ijv2csr", "A", v, j, i, NoOperand,
                          RetCSR(ijv2csr(objs["A"].matrix.own, i, j, v)))
        /\ UNCHANGED objs

NextCSR == Ijv2csr \/ Return

SpecCSR == InitCSR /\ [][NextCSR]_vars

----------------------------------------------------------------------------
\* SpecDiagonal: the diagonal writes of one matrix A of any shape, next to
\* writes of single entries

NextDiagonal ==
    \/ Put({"A"}, 1)
    \/ PutDiagonal({"A"})
    \/ PutDiagonalVector({"A"})
    \/ AddAtDiagonal({"A"})
    \/ NumpyArray({"A"})
    \/ Return

SpecDiagonal == Init /\ [][NextDiagonal]_vars

----------------------------------------------------------------------------
\* SpecIndex: writes of one or two ones to a matrix A of any shape, with
\* indices inside and outside the matrix

NextIndex ==
    \/ PutAny({"A"}, 2)
    \/ AddAtAny({"A"}, 2)
    \/ Return

SpecIndex == Init /\ [][NextIndex]_vars

----------------------------------------------------------------------------
\* What the claims speak of

\* The entries of wrapper n
Entries(O, n) == O[n].matrix.vals

\* The value a caller reads at (r, c) of wrapper n: take([r], [c])
ReadAt(O, n, r, c) == take(O, n, <<r>>, <<c>>).ret

\* The sum of the values a call writes to cell c
RECURSIVE WrittenTo(_, _, _, _, _)
WrittenTo(vector, id1, id2, c, n) ==
    IF n = 0 THEN 0
    ELSE WrittenTo(vector, id1, id2, c, n - 1)
         + (IF <<id1[n], id2[n]>> = c THEN vector[n] ELSE 0)

\* The last position of the input that names the same (row, col) as position k
LastWrite(id1, id2, k) ==
    CHOOSE l \in k..Len(id1) :
      /\ <<id1[l], id2[l]>> = <<id1[k], id2[k]>>
      /\ \A m \in (l + 1)..Len(id1) : <<id1[m], id2[m]>> # <<id1[k], id2[k]>>

\* Some entry of the matrix is not zero
NonZero(m) == \E c \in Cells(m.size) : m.vals[c] # 0

\* C1: addAt accumulates. After an addAt call made in any state of the
\* matrix, the value read at every (row, col) is the value read there before
\* the call plus the sum of all values the call writes to that (row, col),
\* duplicates inside the call included; so over any sequence of addAt calls
\* every write is counted, and x then y leave x + y.
C1_AddAtAccumulates ==
    [][call'.op = "addAt" =>
         /\ call'.ret.kind = "None"
         /\ \A c \in Cells(shape(objs["A"])) :
              LET before == ReadAt(objs, "A", c[1], c[2])
                  after == ReadAt(objs', "A", c[1], c[2])
              IN /\ before.kind = "array" /\ after.kind = "array"
                 /\ after.arr.data[1] =
                      before.arr.data[1]
                      + WrittenTo(call'.vector, call'.id1, call'.id2, c,
                                  Len(call'.vector))]_vars

\* C1's case: an addAt call that writes 1 to a cell that held 1 from an
\* earlier call, and leaves 2 there
C1_Witness ==
    /\ call.op = "addAt"
    /\ call.vector = <<1>>
    /\ Entries(objs, "A")[<<call.id1[1], call.id2[1]>>] = 2

\* C2: put then take round-trips. After put(vector, id1, id2) with all
\* indices in range, take(id1, id2) returns at every position k the value
\* written last, in input order, to the (row, col) of position k; that is
\* vector[k] unless the pair occurs again later in the input.
C2_PutTakeRoundTrip ==
    [][call'.op = "put" =>
         /\ call'.ret.kind = "None"
         /\ LET got == take(objs', "A", call'.id1, call'.id2).ret
            IN /\ got.kind = "array"
               /\ got.arr.shape = <<Len(call'.vector)>>
               /\ \A k \in 1..Len(call'.vector) :
                    got.arr.data[k] =
                      call'.vector[LastWrite(call'.id1, call'.id2, k)]]_vars

\* C2's case: a put that names one (row, col) twice with different values,
\* on a matrix that held a value there, has left the second value
C2_Witness ==
    /\ call.op = "put"
    /\ Len(call.vector) = 2
    /\ <<call.id1[1], call.id2[1]>> = <<call.id1[2], call.id2[2]>>
    /\ call.vector = <<2, 1>>
    /\ Entries(objs, "A")[<<call.id1[1], call.id2[1]>>] = 1

\* The operations that read the backend matrix
ReadOps ==
    {"take", "takeDiagonal", "numpyArray", "getitem", "mul", "rmul",
     "add", "radd", "iadd", "sub", "isub"}

\* Writes are pending on matrix m
Pending(m) == ~m.assembled /\ NonZero(m)

\* C3: every read forces assembly first. A read operation (item access,
\* take, takeDiagonal, numpyArray, multiply, reflected multiply, add or
\* subtract with a nonzero operand) called on a matrix with pending writes
\* leaves the matrix assembled, and its matrix operand too, with all
\* entries as they were: no read reaches the backend in the open state.
C3_ReadsForceAssembly ==
    [][(/\ call'.op \in ReadOps
        /\ call'.operand # OpNumber(0)
        /\ Pending(objs["A"].matrix))
       => /\ objs'["A"].matrix.assembled
          /\ call'.operand.tag = "matrix" => objs'["B"].matrix.assembled
          /\ call'.op \notin {"iadd", "isub"} =>
               Entries(objs', "A") = Entries(objs, "A")
          /\ assemble(objs'["A"].matrix) = objs'["A"].matrix]_vars

\* The number of triplets whose row lies in start..end-1
InRange(j, own) == Cardinality({k \in 1..Len(j) : own[1] <= j[k] /\ j[k] < own[2]})

\* C4: for any triplets and any ownership range <<start, end>>, the row_ptr
\* that _ijv2csr returns starts with 0 and ends with the number of triplets
\* whose row lies in the range, also when rows lie below start or at or
\* after end.
C4_RowPtrEnds ==
    call.op = "_ijv2csr" =>
      LET row_ptr == call.ret.csr.row_ptr
          own == objs["A"].matrix.own
      IN /\ Len(row_ptr) = own[2] - own[1] + 1
         /\ row_ptr[1] = 0
         /\ row_ptr[Len(row_ptr)] = InRange(call.id1, own)

\* The k-th entry of A v, k = 1..rows
MatVec(m, v, k) ==
    SumTo([n \in 0..(m.size[2] - 1) |-> m.vals[<<k - 1, n>>] * v[n + 1]], m.size[2])

\* The n-th entry of v A, n = 1..cols
VecMat(m, v, n) ==
    SumTo([k \in 0..(m.size[1] - 1) |-> v[k + 1] * m.vals[<<k, n - 1>>]], m.size[1])

\* C5: a matrix of any shape times a dense vector v of length cols returns
\* the dense vector of length rows whose k-th entry is sum_j A[k,j] * v[j].
C5_MulVector ==
    (/\ call.op = "mul"
     /\ call.operand.tag = "ndarray"
     /\ call.operand.arr.shape = <<shape(objs["A"])[2]>>)
    => /\ call.ret.kind = "array"
       /\ call.ret.arr.shape = <<shape(objs["A"])[1]>>
       /\ \A k \in 1..shape(objs["A"])[1] :
            call.ret.arr.data[k] = MatVec(objs["A"].matrix, call.operand.arr.data, k)

\* C6: for an assembled matrix of any shape, v * A with a dense vector v of
\* length rows returns the dense vector of length cols whose j-th entry is
\* sum_k v[k] * A[k,j].
C6_RMulVector ==
    (/\ call.op = "rmul"
     /\ call.operand.tag = "ndarray"
     /\ call.operand.arr.shape = <<shape(objs["A"])[1]>>
     /\ objs["A"].matrix.assembled)
    => /\ call.ret.kind = "array"
       /\ call.ret.arr.shape = <<shape(objs["A"])[2]>>
       /\ \A n \in 1..shape(objs["A"])[2] :
            call.ret.arr.data[n] = VecMat(objs["A"].matrix, call.operand.arr.data, n)

\* The operand is an array that is neither a scalar nor a vector of the
\* length of a row of o
BadShape(operand, o) ==
    /\ operand.tag = "ndarray"
    /\ operand.arr.shape # <<>>
    /\ operand.arr.shape # <<shape(o)[2]>>

\* C7: multiply with an operand that is neither a matrix, a scalar nor a
\* vector of length cols raises an error, returns nothing, and leaves the
\* entries of both matrices as they were.
C7_MulBadShapeRaises ==
    [][(call'.op = "mul" /\ BadShape(call'.operand, objs["A"]))
       => /\ call'.ret.kind = "raise"
          /\ Entries(objs', "A") = Entries(objs, "A")
          /\ Entries(objs', "B") = Entries(objs, "B")]_vars

\* C7's case: a matrix with entries was multiplied by a vector longer than
\* its rows, and the call raised
C7_Witness ==
    /\ call.op = "mul"
    /\ call.operand.tag = "ndarray"
    /\ call.operand.arr.shape = <<3>>
    /\ call.ret.kind = "raise"
    /\ NonZero(objs["A"].matrix)

\* C8: zero is the additive identity, without any work. A + 0, 0 + A and
\* A += 0 return A itself and change nothing, whatever the state of A; A + B
\* for a matrix B of the shape of A returns a new matrix, the elementwise
\* sum, and leaves the entries of A and B as they were.
C8_AddZeroIdentity ==
    [][/\ (call'.op \in {"add", "radd", "iadd"} /\ call'.operand = OpNumber(0))
          => (call'.ret.kind = "self" /\ objs' = objs)
       /\ (call'.op = "add" /\ call'.operand.tag = "matrix")
          => /\ Entries(objs', "A") = Entries(objs, "A")
             /\ Entries(objs', "B") = Entries(objs, "B")
             /\ shape(objs["A"]) = shape(objs["B"]) =>
                  /\ call'.ret.kind = "object"
                  /\ \A c \in Cells(shape(objs["A"])) :
                       call'.ret.obj.matrix.vals[c] =
                         Entries(objs, "A")[c] + Entries(objs, "B")[c]]_vars

\* C8's case: 0 + A on a matrix with pending writes returned A itself
C8_Witness ==
    /\ call.op = "radd"
    /\ call.operand = OpNumber(0)
    /\ call.ret.kind = "self"
    /\ Pending(objs["A"].matrix)

\* The calls of SpecMesh that read or write the matrix
MatrixOps == {"putDiagonal", "numpyArray", "mul"}

\* C9: flush releases the matrix unless cache is set. A flush with cache
\* True leaves the wrapper, its matrix and every entry as they were; any
\* other flush (cache never assigned, or False) leaves the wrapper without a
\* matrix. Once the matrix is gone it stays gone, and every later read or
\* write of that wrapper raises instead of returning anything.
C9_FlushReleases ==
    [][/\ call'.op = "flush" =>
            IF objs["A"].cache = "True"
            THEN objs' = objs /\ call'.ret.kind = "None"
            ELSE ~objs'["A"].hasMatrix
       /\ ~objs["A"].hasMatrix =>
            /\ ~objs'["A"].hasMatrix
            /\ call'.op \in MatrixOps => call'.ret.kind = "raise"]_vars

\* C9's case: the matrix was flushed with cache never assigned, and a later
\* read of it raised
C9_Witness ==
    /\ call.op = "numpyArray"
    /\ call.ret.kind = "raise"
    /\ objs["A"].cache = "unset"
    /\ ~objs["A"].hasMatrix

\* C10: the product of two mesh matrices on one mesh is a mesh matrix on
\* that mesh whose rows are numberOfEquations * numberOfCells and whose
\* cols are numberOfVariables * numberOfCells.
C10_MeshProductShape ==
    (/\ call.op = "mul"
     /\ call.operand.tag = "matrix"
     /\ call.ret.kind = "object")
    => LET p == call.ret.obj
       IN /\ p.cls = "_PETScMeshMatrix"
          /\ p.mesh = objs["A"].mesh
          /\ shape(p)[1] = p.numberOfEquations * p.mesh.numberOfCells
          /\ shape(p)[2] = p.numberOfVariables * p.mesh.numberOfCells

\* The number of diagonal entries a putDiagonal call is given: the rows of
\* the matrix for a scalar, the length of the vector otherwise
GivenDiagonal(operand, o) ==
    IF operand.tag = "number" THEN shape(o)[1] ELSE Len(operand.arr.data)

\* The value a putDiagonal call gives for diagonal entry k (from 0)
GivenValue(operand, k) ==
    IF operand.tag = "number" THEN operand.arr.data[1] ELSE operand.arr.data[k + 1]

\* C11: putDiagonal writes only the diagonal entries it is given. With a
\* scalar, or a vector of length k <= rows, the call returns normally, the
\* diagonal entries 0..k-1 (k = rows for a scalar) hold the given values,
\* and every other entry, on the diagonal or off it, is as it was.
C11_PutDiagonalFrame ==
    [][(/\ call'.op = "putDiagonal"
        /\ GivenDiagonal(call'.operand, objs["A"]) <= shape(objs["A"])[1])
       => /\ call'.ret.kind = "None"
          /\ \A c \in Cells(shape(objs["A"])) :
               Entries(objs', "A")[c] =
                 IF c[1] = c[2] /\ c[1] < GivenDiagonal(call'.operand, objs["A"])
                 THEN GivenValue(call'.operand, c[1])
                 ELSE Entries(objs, "A")[c]]_vars

\* Some position of id1 is no row of wrapper o, or some position of id2 no
\* column
OutOfRange(o, id1, id2) ==
    \/ \E k \in DOMAIN id1 : id1[k] \notin RowIds(o)
    \/ \E k \in DOMAIN id2 : id2[k] \notin ColIds(o)

\* C12: put and addAt fail fast on an index outside the matrix. A call with
\* any row index outside 0..rows-1 or column index outside 0..cols-1 raises
\* and leaves every entry of the matrix as it was.
C12_OutOfRangeRaises ==
    [][(/\ call'.op \in {"put", "addAt"}
        /\ OutOfRange(objs["A"], call'.id1, call'.id2))
       => /\ call'.ret.kind = "raise"
          /\ Entries(objs', "A") = Entries(objs, "A")]_vars

\* The positions (from 1) of cols and vals that row_ptr gives local row k
\* (from 1)
Slice(row_ptr, k) == (row_ptr[k] + 1)..row_ptr[k + 1]

\* C13: CSR conversion groups the triplets by row. For triplets in any
\* order whose rows all lie in the ownership range <<start, end>>, row_ptr
\* has length end - start + 1 and does not decrease; the slice of cols and
\* vals it gives local row k holds exactly the input triplets of row
\* start + k, each value with its own column, columns not decreasing; a row
\* without entries has two equal consecutive row_ptr values.
C13_CSRGroupsRows ==
    (/\ call.op = "_ijv2csr"
     /\ InRange(call.id1, objs["A"].matrix.own) = Len(call.id1))
    => LET csr == call.ret.csr
           own == objs["A"].matrix.own
           v == call.vector
           j == call.id1
           i == call.id2
       IN /\ Len(csr.row_ptr) = own[2] - own[1] + 1
          /\ Len(csr.cols) = Len(i) /\ Len(csr.vals) = Len(v)
          /\ \A k \in 1..(own[2] - own[1]) :
               LET slice == Slice(csr.row_ptr, k)
                   row == own[1] + k - 1
               IN /\ csr.row_ptr[k] <= csr.row_ptr[k + 1]
                  /\ slice \subseteq DOMAIN csr.cols
                  /\ \A c \in ColIds(objs["A"]), x \in Vals :
                       Cardinality({p \in slice : csr.cols[p] = c /\ csr.vals[p] = x})
                       = Cardinality({q \in DOMAIN j :
                                        j[q] = row /\ i[q] = c /\ v[q] = x})
                  /\ \A p \in slice, q \in slice :
                       p < q => csr.cols[p] <= csr.cols[q]
                  /\ (\A q \in DOMAIN j : j[q] # row)
                       => csr.row_ptr[k] = csr.row_ptr[k + 1]

\* C13's case: two triplets given in descending row order, on a process
\* that owns both rows, come back with their values swapped into row order
C13_Witness ==
    /\ call.op = "_ijv2csr"
    /\ objs["A"].matrix.own = <<0, 2>>
    /\ call.id1 = <<1, 0>>
    /\ call.vector = <<1, 2>>
    /\ call.ret.csr.row_ptr = <<0, 1, 2>>
    /\ call.ret.csr.vals = <<2, 1>>
    /\ call.ret.csr.cols = <<call.id2[2], call.id2[1]>>

====
